---- MODULE Spec2Model ----
\* A model of DownloadStatement.py: the StatementReader (login, statement
\* fetch, table parsing, entry normalisation), the Period value and the
\* command-line driver `main`.
\*
\* Text is modelled as a sequence of one-character strings, so that the
\* conversions of the program (strip, replace, the two regular expressions,
\* the number formatting of the file name and of the URL) are computed and
\* not assumed.  Python index k is index k+1 here.
EXTENDS Integers, Sequences, FiniteSets, TLC

VARIABLES
    args,        \* the parsed command line (argparse namespace), fixed per run
    pc,          \* position of main()
    filename,    \* main's local `filename`
    period,      \* main's local `period` (a Period: [month, year])
    reader,      \* the StatementReader: [session, headers, entries]
    net,         \* the HTTP requests issued so far, in order
    calls,       \* the periods get_statement was called with, in order
    last,        \* the inputs and the outcome of the latest get_statement call
    written,     \* the output files written, in order
    exitStatus,  \* the exit status of the process once it has ended
    row,         \* entry normaliser: the table row (raw cell texts) under test
    result       \* entry normaliser: the outcome of __get_entry on `row`

vars == <<args, pc, filename, period, reader, net, calls, last, written,
          exitStatus, row, result>>

None == "None"

\* ---------------------------------------------------------------- text

Whitespace == {" ", "\t", "\n", "\r", "\f"}

Digits == {"0", "1", "2", "3", "4", "5", "6", "7", "8", "9"}

Letters ==
    {"a","b","c","d","e","f","g","h","i","j","k","l","m",
     "n","o","p","q","r","s","t","u","v","w","x","y","z",
     "A","B","C","D","E","F","G","H","I","J","K","L","M",
     "N","O","P","Q","R","S","T","U","V","W","X","Y","Z"}

\* the regular expression class \w
WordChars == Letters \cup Digits \cup {"_"}

DigitChar == <<"0", "1", "2", "3", "4", "5", "6", "7", "8", "9">>

\* str(n) for n >= 0
RECURSIVE DecStr(_)
DecStr(n) ==
    IF n < 10 THEN <<DigitChar[n + 1]>>
    ELSE Append(DecStr(n \div 10), DigitChar[(n % 10) + 1])

RECURSIVE ZeroPad(_, _)
ZeroPad(s, w) == IF Len(s) >= w THEN s ELSE ZeroPad(<<"0">> \o s, w)

\* "{0:0wd}".format(n) for n >= 0
FormatInt(n, w) == ZeroPad(DecStr(n), w)

RECURSIVE LStrip(_)
LStrip(s) ==
    IF s # <<>> /\ Head(s) \in Whitespace THEN LStrip(Tail(s)) ELSE s

RECURSIVE RStrip(_)
RStrip(s) ==
    IF s # <<>> /\ s[Len(s)] \in Whitespace
    THEN RStrip(SubSeq(s, 1, Len(s) - 1))
    ELSE s

\* str.strip()
Strip(s) == RStrip(LStrip(s))

\* str.replace(a, b) for one-character a and b
ReplaceChar(s, a, b) == [i \in 1..Len(s) |-> IF s[i] = a THEN b ELSE s[i]]

\* str.endswith(suffix)
EndsWith(s, suffix) ==
    /\ Len(suffix) <= Len(s)
    /\ SubSeq(s, Len(s) - Len(suffix) + 1, Len(s)) = suffix

\* re.match(prefix, s) for a literal pattern: the pattern is anchored at the start
MatchesPrefix(s, prefix) ==
    /\ Len(prefix) <= Len(s)
    /\ SubSeq(s, 1, Len(prefix)) = prefix

\* length of the maximal run of characters of class cls starting at index i
RECURSIVE RunLen(_, _, _)
RunLen(s, i, cls) ==
    IF i <= Len(s) /\ s[i] \in cls THEN 1 + RunLen(s, i + 1, cls) ELSE 0

\* `.` matches every character but the newline
DotMatches(s, from, to) == \A i \in from..to : s[i] # "\n"

\* ------------------------------------------------- the literals of the code

S_login_success == <<"l","o","g","i","n","_","s","u","c","c","e","s","s">>
S_Debet == <<"D","e","b","e","t">>
S_Land == <<"L","a","n","d",":">>
S_csv == <<"c","s","v">>
S_qif == <<"q","i","f">>
\* str(format) when `format` is the builtin: "<built-in function format>"
S_builtin_format ==
    <<"<","b","u","i","l","t","-","i","n"," ","f","u","n","c","t","i","o","n",
      " ","f","o","r","m","a","t",">">>

\* ------------------------------------------------------- entry normaliser

\* col.getText().replace("\n", " ").strip()
CellText(raw) == Strip(ReplaceChar(raw, "\n", " "))

\* the tail \s(\d+),(\d+) of the amount pattern, with the \s at index w
AmountTailAt(s, w) ==
    /\ w <= Len(s)
    /\ s[w] \in Whitespace
    /\ LET d == RunLen(s, w + 1, Digits)
       IN  /\ d >= 1
           /\ w + d + 1 <= Len(s)
           /\ s[w + d + 1] = ","
           /\ RunLen(s, w + d + 2, Digits) >= 1

\* the greedy ^.+ of the amount pattern: the longest prefix of at most p
\* characters after which the tail matches; 0 when the pattern does not match
RECURSIVE GreedyPrefix(_, _)
GreedyPrefix(s, p) ==
    IF p < 1 THEN 0
    ELSE IF DotMatches(s, 1, p) /\ AmountTailAt(s, p + 1) THEN p
    ELSE GreedyPrefix(s, p - 1)

\* a lazy ^.+? instead: the shortest prefix of at least p characters after
\* which the tail matches; 0 when the pattern does not match
RECURSIVE LazyPrefix(_, _)
LazyPrefix(s, p) ==
    IF p > Len(s) \/ ~DotMatches(s, 1, p) THEN 0
    ELSE IF AmountTailAt(s, p + 1) THEN p
    ELSE LazyPrefix(s, p + 1)

\* the amount repair with the pattern ^.+?\s(\d+),(\d+).*
RepairAmountLazy(s) ==
    LET p == LazyPrefix(s, 1)
    IN  IF p = 0 THEN s
        ELSE LET w  == p + 1
                 d1 == RunLen(s, w + 1, Digits)
                 d2 == RunLen(s, w + d1 + 2, Digits)
             IN  SubSeq(s, w + 1, w + d1) \o <<".">>
                     \o SubSeq(s, w + d1 + 2, w + d1 + 1 + d2)

\* re.sub(r"^.+\s(\d+),(\d+).*", r"\1.\2", s)
RepairAmount(s) ==
    LET p == GreedyPrefix(s, Len(s))
    IN  IF p = 0 THEN s
        ELSE LET w  == p + 1
                 d1 == RunLen(s, w + 1, Digits)
                 d2 == RunLen(s, w + d1 + 2, Digits)
                 g1 == SubSeq(s, w + 1, w + d1)
                 g2 == SubSeq(s, w + d1 + 2, w + d1 + 1 + d2)
                 \* the trailing .* stops at a newline, which re.sub keeps
                 e  == w + d1 + 1 + d2
                         + RunLen(s, w + d1 + 2 + d2, {s[i] : i \in 1..Len(s)} \ {"\n"})
             IN  g1 \o <<".">> \o g2 \o SubSeq(s, e + 1, Len(s))

\* the tail \s\w{3}\s+Land: of the payee pattern, with the first \s at index k
PayeeTailAt(s, k) ==
    /\ k + 3 <= Len(s)
    /\ s[k] \in Whitespace
    /\ \A i \in (k + 1)..(k + 3) : s[i] \in WordChars
    /\ LET n == RunLen(s, k + 4, Whitespace)
       IN  /\ n >= 1
           /\ SubSeq(s, k + 4 + n, k + 8 + n) = S_Land
           /\ k + 8 + n <= Len(s)

\* regex.search(s) for (.+?)\s\w{3}\s+Land: -- the pairs <<i, j>> such that
\* group 1 is s[i..j]; search takes the leftmost i and the lazy .+? the least j
PayeeMatches(s) ==
    {ij \in (1..Len(s)) \X (1..Len(s)) :
        /\ ij[1] <= ij[2]
        /\ DotMatches(s, ij[1], ij[2])
        /\ PayeeTailAt(s, ij[2] + 1)}

\* lines 131-135: the payee appended to the row
ExtractPayee(s) ==
    LET ms == PayeeMatches(s)
    IN  IF ms = {} THEN s
        ELSE LET i == CHOOSE x \in {m[1] : m \in ms} :
                          \A y \in {m[1] : m \in ms} : x <= y
                 j == CHOOSE x \in {m[2] : m \in {n \in ms : n[1] = i}} :
                          \A y \in {m[2] : m \in {n \in ms : n[1] = i}} : x <= y
             IN  SubSeq(s, i, j)

\* lines 115-120: the texts of the td cells of a row
CellTexts(r) == [i \in 1..Len(r) |-> CellText(r[i])]

\* lines 125-128: decimal comma of column 5, amount repair of column 6
FixAmounts(row_items) ==
    [i \in 1..Len(row_items) |->
        IF i = 6 THEN ReplaceChar(row_items[6], ",", ".")
        ELSE IF i = 7 THEN RepairAmount(row_items[7])
        ELSE row_items[i]]

\* lines 130-135: the payee is appended
AppendPayee(row_items) == Append(row_items, ExtractPayee(row_items[3]))

\* the debit branch without the minus sign
SplitAmountUnsigned(row_items) ==
    IF MatchesPrefix(row_items[5], S_Debet)
    THEN Append(Append(row_items, row_items[7]), <<>>)
    ELSE Append(Append(row_items, <<>>), row_items[7])

\* the credit branch with the amount in out as well
SplitAmountBoth(row_items) ==
    IF MatchesPrefix(row_items[5], S_Debet)
    THEN [Append(Append(row_items, row_items[7]), <<>>)
              EXCEPT ![7] = <<"-">> \o row_items[7]]
    ELSE Append(Append(row_items, row_items[7]), row_items[7])

\* lines 137-146: out and in are appended, a debit amount is negated
SplitAmount(row_items) ==
    IF MatchesPrefix(row_items[5], S_Debet)
    THEN [Append(Append(row_items, row_items[7]), <<>>)
              EXCEPT ![7] = <<"-">> \o row_items[7]]
    ELSE Append(Append(row_items, <<>>), row_items[7])

\* __get_entry that inserts the record at the front of the collection
GetEntryPrepend(entries, r) ==
    IF Len(r) = 0
    THEN [entries |-> entries, error |-> None]
    ELSE IF Len(r) < 7
    THEN [entries |-> entries, error |-> "IndexError"]
    ELSE [entries |-> <<SplitAmount(AppendPayee(FixAmounts(CellTexts(r))))>> \o entries,
          error   |-> None]

\* lines 114-150: __get_entry(row) on the entries collection.  A row is the
\* sequence of the raw texts of its td cells.  The result is the entries
\* collection afterwards and the exception raised, if any.
GetEntry(entries, r) ==
    IF Len(r) = 0
    THEN [entries |-> entries, error |-> None]
    ELSE IF Len(r) < 7
    \* row_items[5] (fewer than 6 cells) or row_items[6] (6 cells)
    THEN [entries |-> entries, error |-> "IndexError"]
    ELSE [entries |-> Append(entries, SplitAmount(AppendPayee(FixAmounts(CellTexts(r))))),
          error   |-> None]

\* lines 165-166: for row in rows: self.__get_entry(row)
RECURSIVE GetEntries(_, _)
RECURSIVE RestOfEntries(_, _)
GetEntries(entries, rows) ==
    IF rows = <<>> THEN [entries |-> entries, error |-> None]
    ELSE RestOfEntries(GetEntry(entries, Head(rows)), Tail(rows))

\* an exception of __get_entry ends the loop
RestOfEntries(one, rows) ==
    IF one.error # None THEN one ELSE GetEntries(one.entries, rows)

\* ------------------------------------------------------- StatementReader

\* lines 42-51: a new StatementReader.  __headers and __entries are class
\* attributes, one list for all the readers of a process; a process makes one.
NewReader == [session |-> None, headers |-> <<>>, entries |-> <<>>]

\* lines 104-112: __get_headers(table); table.th are the texts of its th cells
GetHeaders(headers, table) == headers \o table.th \o <<"payee", "out", "in">>

\* lines 159-166: the single table is parsed; got is the outcome of the row loop
ParseOne(rd, hs, got) ==
    [reader |-> [rd EXCEPT !.headers = hs, !.entries = got.entries],
     error  |-> got.error]

\* __parse_table without the test of len(self.__headers): headers read each time
ParseTableHeadersEachTime(rd, tables) ==
    IF Len(tables) < 1
    THEN [reader |-> rd, error |-> "No statement table found"]
    ELSE IF Len(tables) > 1
    THEN [reader |-> rd, error |-> "Too many statement tables found"]
    ELSE ParseOne(rd,
                  GetHeaders(rd.headers, tables[1]),
                  GetEntries(rd.entries, tables[1].rows))

\* lines 152-169: __parse_table(tables)
ParseTable(rd, tables) ==
    IF Len(tables) < 1
    THEN [reader |-> rd, error |-> "No statement table found"]
    ELSE IF Len(tables) > 1
    THEN [reader |-> rd, error |-> "Too many statement tables found"]
    ELSE ParseOne(rd,
                  IF Len(rd.headers) = 0
                  THEN GetHeaders(rd.headers, tables[1])
                  ELSE rd.headers,
                  GetEntries(rd.entries, tables[1].rows))

\* line 178: the response text says login_success
LoginSucceeded(resp) == ~resp.error /\ Strip(Strip(resp.body)) = S_login_success

\* __login without the test of self.__session: a login on every call
LoginEveryCall(rd, nt, resp) ==
    [reader |-> [rd EXCEPT !.session = "Session"],
     net    |-> Append(nt, [req |-> "POST", key |-> <<>>, ok |-> LoginSucceeded(resp)]),
     error  |-> IF resp.error THEN "ConnectionError"
                ELSE IF LoginSucceeded(resp) THEN None
                ELSE "Login Failure"]

\* lines 171-181: __login().  resp is the portal's answer to the POST:
\* resp.error is a transport failure, resp.body the response text.
Login(rd, nt, resp) ==
    IF rd.session = None
    THEN [reader |-> [rd EXCEPT !.session = "Session"],
          net    |-> Append(nt, [req |-> "POST", key |-> <<>>, ok |-> LoginSucceeded(resp)]),
          error  |-> IF resp.error THEN "ConnectionError"
                     ELSE IF LoginSucceeded(resp) THEN None
                     ELSE "Login Failure"]
    ELSE [reader |-> rd, net |-> nt, error |-> None]

\* lines 223-227: Period.__str__
PeriodStr(p) == FormatInt(p.year, 4) \o FormatInt(p.month, 2)

\* lines 62-66: the page is parsed unless the GET failed
ParsePage(rd, nt, page, parsed) ==
    IF page.error
    THEN [reader |-> rd, net |-> nt, error |-> "ConnectionError"]
    ELSE [reader |-> parsed.reader, net |-> nt, error |-> parsed.error]

\* lines 60-66: the statement GET and what follows it
FetchPage(rd, nt, p, page) ==
    ParsePage(rd,
              Append(nt, [req |-> "GET", key |-> PeriodStr(p), ok |-> ~page.error]),
              page,
              IF page.error THEN [reader |-> rd, error |-> None]
              ELSE ParseTable(rd, page.tables))

\* line 59 and what follows it: an exception of __login ends the call
AfterLogin(li, p, page) ==
    IF li.error # None THEN li ELSE FetchPage(li.reader, li.net, p, page)

\* lines 53-66: get_statement(period).  page is the portal's answer to the GET:
\* page.error is a transport failure, page.tables the table.expander-table
\* elements of the document.
GetStatement(rd, nt, p, resp, page) == AfterLogin(Login(rd, nt, resp), p, page)

\* increment_month without the carry into the year
IncrementMonthNoCarry(p) ==
    IF p.month = 12 THEN [month |-> 1, year |-> p.year]
    ELSE [month |-> p.month + 1, year |-> p.year]

\* lines 189-197: Period.increment_month
IncrementMonth(p) ==
    IF p.month = 12 THEN [month |-> 1, year |-> p.year + 1]
    ELSE [month |-> p.month + 1, year |-> p.year]

\* lines 68-81: the rows to_csv writes
CsvRows(rd) == <<rd.headers>> \o rd.entries

\* lines 83-102: the D, T, M and P fields to_qif writes for each entry
QifRows(rd) ==
    [i \in 1..Len(rd.entries) |->
        LET line == rd.entries[i] IN <<line[1], line[7], line[6], line[8]>>]

\* ------------------------------------------------------------ bounds, inputs

\* the longest range of a run is MaxSpan + 1 months
MaxSpan == 2
\* the most body rows of a statement table
MaxRows == 2
\* the longest amount text enumerated exhaustively
MaxLen == 5

\* an infinite loop of main (start period after the end period) is cut here
MaxCalls == MaxSpan + 2

\* an optional value: Nothing is Python's None
Nothing == <<>>
Some(x) == <<x>>

Chars(n, alphabet) == UNION {[1..k -> alphabet] : k \in 0..n}

StartYears == {2020}
MonthIndex(p) == p.year * 12 + (p.month - 1)
PeriodAt(i) == [month |-> (i % 12) + 1, year |-> i \div 12]

T_out == <<"o","u","t">>
T_out_csv == <<"o","u","t",".","c","s","v">>
T_date == <<"0","1","-","1","2">>
T_card == <<"*","1","2","3","4">>
T_EUR == <<"E","U","R">>
T_rate == <<"1",",","5">>
T_Credit == <<"C","r","e","d","i","t">>
T_DebetCredit == <<"D","e","b","e","t"," ","/"," ","C","r","e","d","i","t">>
T_debet == <<"d","e","b","e","t">>
T_shop == <<"A","H"," ","1","2"," ","A","M","S"," "," ","L","a","n","d",":"," ","N","L">>
T_ideal == <<"I","D","E","A","L"," ","b","e","t","a","l","i","n","g">>
T_amount12 == <<"€"," ","1","2",",","3","4">>
T_amount5 == <<"€"," ","5",",","0","0">>
T_thousands == <<"€"," ","1",".","2","3","4",",","5","6">>
T_bare == <<"1","2",",","3","4">>
T_two == <<"a"," ","1",",","2"," ","3",",","4"," ","x">>
T_padded == <<" ","€","\n","7",",","5"," ">>

\* the end periods tried for a start period: none, a month or a year alone,
\* and every period from one month before the start to MaxSpan months after it
EndChoices(start) ==
    {<<Nothing, Nothing>>, <<Some(start.month), Nothing>>, <<Nothing, Some(start.year)>>}
    \cup {<<Some(PeriodAt(i).month), Some(PeriodAt(i).year)>> :
             i \in (MonthIndex(start) - 1)..(MonthIndex(start) + MaxSpan)}

\* the inputs of a run: the command line after lines 234-269
ArgSet ==
    UNION {
        {[month |-> m, year |-> y, end_month |-> e[1], end_year |-> e[2],
          filename |-> f, format |-> t] :
            e \in EndChoices([month |-> m, year |-> y]),
            f \in {Nothing, Some(T_out), Some(T_out_csv)},
            t \in {S_csv, S_qif}} :
        m \in 1..12, y \in StartYears}

LoginResponses ==
    {[error |-> FALSE, body |-> S_login_success],
     [error |-> FALSE, body |-> <<" ">> \o S_login_success \o <<"\n">>],
     [error |-> FALSE, body |-> <<"E","r","r","o","r">>],
     [error |-> TRUE, body |-> <<>>]}

\* no POST is issued, so no response is read
NoResponse == [error |-> TRUE, body |-> <<>>]
ResponsesFor(rd) == IF rd.session = None THEN LoginResponses ELSE {NoResponse}

HeaderRow == <<>>
DebitRow == <<T_date, <<>>, T_shop, T_card, S_Debet, T_EUR, T_amount12>>
CreditRow == <<T_date, <<>>, T_ideal, T_card, T_Credit, T_rate, T_amount5, <<"x">>>>
ShortRow == <<T_date, <<>>, T_ideal>>

\* line 46: the headers of the statement table of the portal
TableA ==
    [th   |-> <<"Datum", "*", "Omschrijving", "Card-nummer", "Debet / Credit",
                "Valuta", "Bedrag">>,
     rows |-> <<HeaderRow, DebitRow>>]
TableB == [th |-> <<"Date", "Amount">>, rows |-> <<HeaderRow, CreditRow, DebitRow>>]

Pages ==
    {[error |-> TRUE, tables |-> <<>>],
     [error |-> FALSE, tables |-> <<>>],
     [error |-> FALSE, tables |-> <<TableA, TableB>>],
     [error |-> FALSE, tables |-> <<TableA>>],
     [error |-> FALSE, tables |-> <<TableB>>]}

\* the rows a statement table of the reader runs is made of
BodyRows == {HeaderRow, DebitRow, CreditRow, ShortRow}
RowLists == UNION {[1..k -> BodyRows] : k \in 0..MaxRows}

ReaderPages ==
    {[error |-> TRUE, tables |-> <<>>],
     [error |-> FALSE, tables |-> <<>>],
     [error |-> FALSE, tables |-> <<TableA, TableB>>]}
    \cup {[error |-> FALSE, tables |-> <<[th |-> <<"Datum", "Bedrag">>, rows |-> rs]>>] :
             rs \in RowLists}

\* the periods a client of one reader asks for, in this order
ClientPeriods == <<[month |-> 12, year |-> 2020], [month |-> 1, year |-> 2021]>>

\* the raw texts of the amount cell: every text of at most MaxLen characters
\* over AmountAlphabet, and some longer ones
AmountAlphabet == {"€", " ", "1", ",", "."}
AmountTexts ==
    Chars(MaxLen, AmountAlphabet)
    \cup {T_amount12, T_amount5, T_thousands, T_bare, T_two, T_padded}

Indicators == {S_Debet, T_Credit, T_DebetCredit}

\* the rows the entry normaliser is tried on
EntryRows ==
    {<<T_date, <<>>, T_ideal, T_card, ind, T_EUR, amt>> :
        ind \in Indicators, amt \in AmountTexts}
    \cup {<<T_date, <<>>, T_shop, T_card, ind, T_rate, T_two>> :
             ind \in {T_debet, <<>>, <<" ">> \o S_Debet}}
    \cup BodyRows

\* ------------------------------------------------------------------ main

\* lines 271-280: the output file name; a None formatted with 04d or 02d
\* raises TypeError
MakeFilename(a) ==
    IF a.filename = Nothing
    THEN IF Some(a.month) = a.end_month /\ Some(a.year) = a.end_year
         THEN [error |-> None,
               name  |-> FormatInt(a.year, 4) \o <<"-">> \o FormatInt(a.month, 2)
                             \o <<".">> \o a.format]
         ELSE IF a.end_year = Nothing \/ a.end_month = Nothing
         THEN [error |-> "TypeError", name |-> <<>>]
         ELSE [error |-> None,
               name  |-> FormatInt(a.year, 4) \o <<"-">> \o FormatInt(a.month, 2)
                             \o <<"_","t","o","_">>
                             \o FormatInt(a.end_year[1], 4) \o <<"-">>
                             \o FormatInt(a.end_month[1], 2)
                             \o <<".">> \o S_builtin_format]
    ELSE IF EndsWith(a.filename[1], <<".">> \o a.format)
         THEN [error |-> None, name |-> a.filename[1]]
         ELSE [error |-> None, name |-> a.filename[1] \o <<".">> \o a.format]

NoCall == [period |-> Nothing, resp |-> Nothing, page |-> Nothing,
           error |-> None, before |-> NewReader]

Init ==
    /\ args \in ArgSet
    /\ pc = "filename"
    /\ filename = Nothing
    /\ period = Nothing
    /\ reader = NewReader
    /\ net = <<>>
    /\ calls = <<>>
    /\ last = NoCall
    /\ written = <<>>
    /\ exitStatus = Nothing
    /\ row = Nothing
    /\ result = Nothing

\* lines 271-280 of main, which are outside the try block: an exception here
\* is uncaught and ends the process with a traceback and status 1
ComputeFilename ==
    /\ pc = "filename"
    /\ LET f == MakeFilename(args)
       IN  IF f.error # None
           THEN /\ pc' = "done"
                /\ exitStatus' = Some(1)
                /\ UNCHANGED filename
           ELSE /\ pc' = "first"
                /\ filename' = f.name
                /\ UNCHANGED exitStatus
    /\ UNCHANGED <<args, period, reader, net, calls, last, written, row, result>>

\* the outcome g of my_statement.get_statement(p) in main
Called(g, p, resp, page) ==
    /\ reader' = g.reader
    /\ net' = g.net
    /\ calls' = Append(calls, p)
    /\ last' = [period |-> Some(p), resp |-> Some(resp), page |-> Some(page),
                error |-> g.error, before |-> reader]
    /\ pc' = IF g.error = None THEN "loop" ELSE "except"

\* my_statement.get_statement(p) in main with the portal's answers resp and page
CallGetStatement(p, resp, page) ==
    Called(GetStatement(reader, net, p, resp, page), p, resp, page)

\* lines 284-286
FirstStatement ==
    /\ pc = "first"
    /\ period' = [month |-> args.month, year |-> args.year]
    /\ \E resp \in ResponsesFor(reader), page \in Pages :
           CallGetStatement(period', resp, page)
    /\ UNCHANGED <<args, filename, written, exitStatus, row, result>>

\* line 289: the loop condition, after the test of line 288
MorePeriods ==
    /\ args.end_month # Nothing
    /\ args.end_year # Nothing
    /\ ~(Some(period.month) = args.end_month /\ Some(period.year) = args.end_year)

\* lines 289-291: one turn of the loop
NextStatement ==
    /\ pc = "loop"
    /\ MorePeriods
    /\ Len(calls) < MaxCalls
    /\ period' = IncrementMonth(period)
    /\ \E resp \in ResponsesFor(reader), page \in Pages :
           CallGetStatement(period', resp, page)
    /\ UNCHANGED <<args, filename, written, exitStatus, row, result>>

\* lines 288-289: no end period, or the end period has been reached
LoopExit ==
    /\ pc = "loop"
    /\ ~MorePeriods
    /\ pc' = "write"
    /\ UNCHANGED <<args, filename, period, reader, net, calls, last, written,
                   exitStatus, row, result>>

\* lines 293-296, and the normal end of the process
WriteOutput ==
    /\ pc = "write"
    /\ written' = Append(written,
           IF args.format = S_qif
           THEN [name |-> filename, by |-> "to_qif", rows |-> QifRows(reader)]
           ELSE [name |-> filename, by |-> "to_csv", rows |-> CsvRows(reader)])
    /\ pc' = "done"
    /\ exitStatus' = Some(0)
    /\ UNCHANGED <<args, filename, period, reader, net, calls, last, row, result>>

\* an except clause that swallows the error and lets the loop go on
HandleExceptionResume ==
    /\ pc = "except"
    /\ pc' = "loop"
    /\ UNCHANGED <<args, filename, period, reader, net, calls, last, written,
                   exitStatus, row, result>>

\* lines 298-300
HandleException ==
    /\ pc = "except"
    /\ pc' = "done"
    /\ exitStatus' = Some(-1)
    /\ UNCHANGED <<args, filename, period, reader, net, calls, last, written,
                   row, result>>

Next ==
    \/ ComputeFilename
    \/ FirstStatement
    \/ NextStatement
    \/ LoopExit
    \/ WriteOutput
    \/ HandleException

Spec == Init /\ [][Next]_vars

\* ------------------------------------------- a client of one StatementReader

InitReader ==
    /\ args = Nothing
    /\ pc = "client"
    /\ filename = Nothing
    /\ period = Nothing
    /\ reader = NewReader
    /\ net = <<>>
    /\ calls = <<>>
    /\ last = NoCall
    /\ written = <<>>
    /\ exitStatus = Nothing
    /\ row = Nothing
    /\ result = Nothing

\* the outcome g of a client's get_statement(p); the client goes on whatever it is
ClientCalled(g, p, resp, page) ==
    /\ reader' = g.reader
    /\ net' = g.net
    /\ calls' = Append(calls, p)
    /\ last' = [period |-> Some(p), resp |-> Some(resp), page |-> Some(page),
                error |-> g.error, before |-> reader]

\* lines 53-66: a client calls get_statement on the reader, also after a
\* call that raised
ClientCall ==
    /\ pc = "client"
    /\ Len(calls) < Len(ClientPeriods)
    /\ \E resp \in ResponsesFor(reader), page \in ReaderPages :
           ClientCalled(GetStatement(reader, net, ClientPeriods[Len(calls) + 1], resp, page),
                        ClientPeriods[Len(calls) + 1], resp, page)
    /\ UNCHANGED <<args, pc, filename, period, written, exitStatus, row, result>>

NextReader == ClientCall

SpecReader == InitReader /\ [][NextReader]_vars

\* ------------------------------------------------- the entry normaliser alone

InitEntry ==
    /\ args = Nothing
    /\ pc = "row"
    /\ filename = Nothing
    /\ period = Nothing
    /\ reader = NewReader
    /\ net = <<>>
    /\ calls = <<>>
    /\ last = NoCall
    /\ written = <<>>
    /\ exitStatus = Nothing
    /\ row \in EntryRows
    /\ result = Nothing

\* lines 114-150: __get_entry(row) on an empty entries collection
NormaliseRow ==
    /\ pc = "row"
    /\ pc' = "normalised"
    /\ result' = GetEntry(<<>>, row)
    /\ UNCHANGED <<args, filename, period, reader, net, calls, last, written,
                   exitStatus, row>>

NextEntry == NormaliseRow

SpecEntry == InitEntry /\ [][NextEntry]_vars

\* ---------------------------------------------------------------- claims

StartPeriod == [month |-> args.month, year |-> args.year]
RangeGiven == args.end_month # Nothing /\ args.end_year # Nothing
EndIndex == args.end_year[1] * 12 + (args.end_month[1] - 1)
\* both ends given, months in 1..12, the start period not after the end period
ValidRange ==
    /\ RangeGiven
    /\ args.month \in 1..12
    /\ args.end_month[1] \in 1..12
    /\ MonthIndex(StartPeriod) <= EndIndex
EndedNormally == pc = "done" /\ exitStatus = Some(0)

\* C1: with a valid range, the k-th call of get_statement is for the k-th
\* calendar month counted from the start period (so the calls are in strictly
\* increasing calendar order, December followed by January of the next year,
\* none outside the range, none twice); no call follows the one for the end
\* period; and a run that reaches the output stage has called get_statement
\* for every month of the range.
C1_RangeInOrder ==
    ValidRange =>
        /\ Len(calls) <= EndIndex - MonthIndex(StartPeriod) + 1
        /\ \A k \in 1..Len(calls) :
              /\ calls[k].month \in 1..12
              /\ MonthIndex(calls[k]) = MonthIndex(StartPeriod) + k - 1
        /\ (pc = "write" \/ EndedNormally) =>
              Len(calls) = EndIndex - MonthIndex(StartPeriod) + 1

\* a run over a range that crosses the turn of the year has ended normally
C1_Witness ==
    /\ ValidRange
    /\ EndedNormally
    /\ Len(calls) >= 3
    /\ \E k \in 1..(Len(calls) - 1) :
          /\ calls[k].month = 12
          /\ calls[k + 1] = [month |-> 1, year |-> calls[k].year + 1]

\* C2: once a get_statement call has raised (login failure, no table, more
\* than one table, transport error), the only step of the run is the exit with
\* status -1: no further call, no further request, no file written.
C2_FailureAborts ==
    [][last.error # None =>
          /\ pc = "except"
          /\ pc' = "done"
          /\ exitStatus' = Some(-1)
          /\ written = <<>>
          /\ written' = <<>>
          /\ calls' = calls
          /\ net' = net]_vars

\* a run has ended with status -1 after a failure at a later period of the range
C2_Witness ==
    /\ pc = "done"
    /\ exitStatus = Some(-1)
    /\ Len(calls) >= 2
    /\ last.error = "Too many statement tables found"
    /\ written = <<>>

\* C3: at most one login POST is issued in a run; it is the first request and
\* is issued only once get_statement has been called; every request after it
\* is a statement GET, at most one for each get_statement call.
C3_LoginOnce ==
    /\ Cardinality({i \in 1..Len(net) : net[i].req = "POST"}) <= 1
    /\ calls = <<>> => net = <<>>
    /\ net # <<>> => net[1].req = "POST"
    /\ \A i \in 2..Len(net) : net[i].req = "GET"
    /\ Len(net) <= Len(calls) + 1
    /\ calls # <<>> => reader.session # None

\* three periods have been fetched after the one login
C3_Witness ==
    /\ Len(net) = 4
    /\ net[1].req = "POST"
    /\ net[4].req = "GET"
    /\ last.error = None

\* C4: a run without --end-month and --end-year in which no get_statement call
\* raises ends having fetched exactly the start period and written exactly one
\* file in the chosen format, whether --filename is given or not; a given
\* name lacking the extension gets '.<format>' appended.
C4_SinglePeriodRun ==
    (/\ args.end_month = Nothing
     /\ args.end_year = Nothing
     /\ pc = "done"
     /\ last.error = None) =>
        /\ calls = <<StartPeriod>>
        /\ Len(written) = 1
        /\ written[1].by = (IF args.format = S_qif THEN "to_qif" ELSE "to_csv")
        /\ (args.filename # Nothing /\ ~EndsWith(args.filename[1], <<".">> \o args.format))
              => written[1].name = args.filename[1] \o <<".">> \o args.format

\* C5: the first get_statement call of a run, when it succeeds, sets the header
\* list to the th texts of its table followed by payee, out, in; no step after
\* the first call changes the header list.
C5_HeadersFromFirst ==
    [][/\ (calls = <<>> /\ calls' # <<>> /\ last'.error = None) =>
              reader'.headers = last'.page[1].tables[1].th \o <<"payee", "out", "in">>
       /\ calls # <<>> => reader'.headers = reader.headers]_vars

\* a second period with other table headers has been fetched, and the header
\* list is still the one of the first period
C5_Witness ==
    /\ Len(calls) >= 2
    /\ last.error = None
    /\ reader.headers = TableA.th \o <<"payee", "out", "in">>
    /\ last.page[1].tables[1].th = TableB.th

StartsWithDebet(s) == Len(s) >= 5 /\ \A i \in 1..5 : s[i] = S_Debet[i]

\* the row of the entry normaliser has been stored as a record
Normalised == pc = "normalised" /\ result.error = None /\ Len(result.entries) = 1

\* C6: in the record of a row, with the normalised amount a of the row: if the
\* indicator column starts with Debet, then out = a, in is empty and the stored
\* amount column is '-' followed by a; otherwise in = a, out is empty and the
\* stored amount column is a.
C6_DebitCreditSplit ==
    Normalised =>
        LET e == result.entries[1]
            n == Len(row)
            a == RepairAmount(CellText(row[7]))
        IN  IF StartsWithDebet(CellText(row[5]))
            THEN e[n + 2] = a /\ e[n + 3] = <<>> /\ e[7] = <<"-">> \o a
            ELSE e[n + 3] = a /\ e[n + 2] = <<>> /\ e[7] = a

\* a debit row whose indicator is longer than the word Debet has been stored
C6_Witness ==
    /\ Normalised
    /\ CellText(row[5]) = T_DebetCredit
    /\ result.entries[1][7] = <<"-", "1", ".", "1">>
    /\ result.entries[1][9] = <<"1", ".", "1">>

\* C7 as claimed: every record has exactly one of out and in non-empty.
C7_ExactlyOne ==
    Normalised =>
        LET e == result.entries[1]
            n == Len(row)
        IN  (e[n + 2] # <<>>) # (e[n + 3] # <<>>)

\* C7 as amended: no record has both out and in non-empty, and exactly one of
\* them is non-empty exactly when the amount cell of the row has text left
\* after trimming.
C7_AtMostOne ==
    Normalised =>
        LET e == result.entries[1]
            n == Len(row)
        IN  /\ ~(e[n + 2] # <<>> /\ e[n + 3] # <<>>)
            /\ ((e[n + 2] # <<>>) # (e[n + 3] # <<>>)) <=> (Strip(row[7]) # <<>>)

\* a debit row with a blank amount cell has been stored with out and in both empty
C7_Witness ==
    /\ Normalised
    /\ row[7] = <<" ">>
    /\ row[5] = S_Debet
    /\ result.entries[1][9] = <<>>
    /\ result.entries[1][10] = <<>>
    /\ result.entries[1][7] = <<"-">>

\* the normalised amount of the stored record (it is in out or in in)
StoredAmount ==
    LET e == result.entries[1]
        n == Len(row)
    IN  IF e[n + 2] # <<>> THEN e[n + 2] ELSE e[n + 3]

\* the commas of s with a digit on either side
Segments(s) ==
    {c \in 2..(Len(s) - 1) : s[c] = "," /\ s[c - 1] \in Digits /\ s[c + 1] \in Digits}

Max(S) == CHOOSE x \in S : \A y \in S : y <= x

\* the digits of s that end right before index c
RECURSIVE DigitsBefore(_, _)
DigitsBefore(s, c) ==
    IF c > 1 /\ s[c - 1] \in Digits
    THEN Append(DigitsBefore(s, c - 1), s[c - 1])
    ELSE <<>>

\* the digits of s that start right after index c
RECURSIVE DigitsAfter(_, _)
DigitsAfter(s, c) ==
    IF c < Len(s) /\ s[c + 1] \in Digits
    THEN <<s[c + 1]>> \o DigitsAfter(s, c + 1)
    ELSE <<>>

AnchoredSegments(s) ==
    {c \in Segments(s) :
        /\ c - Len(DigitsBefore(s, c)) - 1 >= 1
        /\ s[c - Len(DigitsBefore(s, c)) - 1] \in Whitespace}

FetchedOneTable ==
    /\ last.page # Nothing
    /\ ~last.page[1].error
    /\ Len(last.page[1].tables) = 1
    /\ last.error \notin {"Login Failure", "ConnectionError"}

HasColumns(r) == Len(r) > 0
IsShort(r) == Len(r) \in 1..6

\* the index of the first row of rows with one to six columns, Len(rows) + 1 if none
FirstShort(rows) ==
    IF \E k \in 1..Len(rows) : IsShort(rows[k])
    THEN CHOOSE k \in 1..Len(rows) :
             IsShort(rows[k]) /\ \A j \in 1..(k - 1) : ~IsShort(rows[j])
    ELSE Len(rows) + 1

\* the latest call left the earlier records alone and appended one record for
\* each of rows, in order: the columns of the row and three more fields
AppendedFor(rows) ==
    /\ Len(reader.entries) = Len(last.before.entries) + Len(rows)
    /\ SubSeq(reader.entries, 1, Len(last.before.entries)) = last.before.entries
    /\ \A k \in 1..Len(rows) :
          LET e == reader.entries[Len(last.before.entries) + k]
          IN  /\ Len(e) = Len(rows[k]) + 3
              /\ \A c \in (1..Len(rows[k])) \ {6, 7} : e[c] = CellText(rows[k][c])

\* C9 as claimed: a call on a page with exactly one table appends one record
\* (column count + 3 fields) for each row with at least one column, in row
\* order, nothing for a row without columns, and leaves earlier records alone.
C9_EveryRowAppends ==
    FetchedOneTable =>
        AppendedFor(SelectSeq(last.page[1].tables[1].rows, HasColumns))

\* C9 as amended: the rows are processed in order up to the first row with one
\* to six columns; each of these with at least seven columns appends one record
\* (column count + 3 fields), each without columns appends nothing, earlier
\* records are left alone; a row with one to six columns appends nothing and
\* raises IndexError, which ends the call before the rows after it.
C9_RowsUpToFirstShort ==
    FetchedOneTable =>
        LET rows == last.page[1].tables[1].rows
            k    == FirstShort(rows)
        IN  /\ AppendedFor(SelectSeq(SubSeq(rows, 1, k - 1), HasColumns))
            /\ last.error = (IF k <= Len(rows) THEN "IndexError" ELSE None)

\* a second call has appended the records of a seven-column and of an
\* eight-column row after the records of the first call
C9_Witness ==
    /\ FetchedOneTable
    /\ last.error = None
    /\ Len(last.before.entries) >= 1
    /\ last.page[1].tables[1].rows = <<DebitRow, CreditRow>>
    /\ Len(reader.entries) = Len(last.before.entries) + 2
    /\ Len(reader.entries[Len(reader.entries)]) = 11

\* C10: a statement GET is issued only after a login POST of this reader that
\* was answered login_success.
C10_GetOnlyAfterLogin ==
    \A i \in 1..Len(net) :
        net[i].req = "GET" => \E j \in 1..(i - 1) : net[j].req = "POST" /\ net[j].ok

====
